---- MODULE Spec2Model ----
(***************************************************************************)
(* Model of django-awesome-tools (dj_drf_utils): the cache mixins built by *)
(* build_cache_mixins over custom_cache_page and the Django cache, and the *)
(* ORM helpers get_object_or_error / get_list_or_error with the           *)
(* FilterQuerysetMixin that calls them; CustomUserManager; the serializer  *)
(* mixins and the attach-user mixins; bulk_get_or_create; and              *)
(* build_retrieve_update_destroy_docs.                                     *)
(*                                                                         *)
(* Text is modelled as sequences of one-character strings, so that string  *)
(* formatting, splitting and glob matching are computed, not assumed.      *)
(***************************************************************************)
EXTENDS Integers, Sequences, FiniteSets, TLC

VARIABLES
    cfg,      \* arguments of build_cache_mixins: [headers, user]
    now,      \* clock of the cache backend, in units of 300 seconds
    db,       \* version of the data the list handler reads
    idx,      \* cache entries "group:key" -> hashed key, set by gen_cache_key
    pages,    \* cache entries hashed key -> response, set by cache_page
    last,     \* the request handled last and what it was answered
    fresh,    \* history: requests answered by the view's list and cached, with
              \* no erase since and the TTL not yet elapsed
    store,    \* what outlives a call: the rows of the model class the helpers
              \* query, the users a manager saved, the default dictionaries
              \* of the docs builder
    call      \* the last call of a helper, manager or view method, and its
              \* outcome

cacheVars == <<cfg, now, db, idx, pages, last, fresh>>
ormVars == <<store, call>>
vars == <<cfg, now, db, idx, pages, last, fresh, store, call>>

----------------------------------------------------------------------------
(* Bounds *)

\* MaxTime: ticks of the clock; MaxWrites: mutations of the data; MaxEntries:
\* responses held in the cache at once; MaxRows: rows of the queried table

MaxTime == 2
MaxWrites == 1
MaxEntries == 2
MaxRows == 2

----------------------------------------------------------------------------
(* Text *)

\* s contains g as a contiguous substring
Contains(s, g) ==
    \E i \in 0..(Len(s) - Len(g)) : SubSeq(s, i + 1, i + Len(g)) = g

\* Python str.split(sep) for a one-character separator
RECURSIVE SplitAcc(_, _, _)
SplitAcc(s, sep, cur) ==
    IF s = <<>> THEN <<cur>>
    ELSE IF Head(s) = sep THEN <<cur>> \o SplitAcc(Tail(s), sep, <<>>)
         ELSE SplitAcc(Tail(s), sep, Append(cur, Head(s)))

Split(s, sep) == SplitAcc(s, sep, <<>>)

NoneStr == <<"N", "o", "n", "e">>

Digit(n) == <<"0", "1", "2", "3", "4", "5", "6", "7", "8", "9">>[n + 1]

\* str(n) of a non-negative int
RECURSIVE IntStr(_)
IntStr(n) == IF n < 10 THEN <<Digit(n)>> ELSE IntStr(n \div 10) \o <<Digit(n % 10)>>

\* an optional value: Python None or a text
None == [some |-> FALSE, v |-> <<>>]
Some(v) == [some |-> TRUE, v |-> v]

\* f"{x}" of an optional text
FStr(x) == IF x.some THEN x.v ELSE NoneStr

----------------------------------------------------------------------------
(* Requests *)

\* django.http.HttpRequest as the mixins read it: path, the query string as
\* its (name, value) pairs in order, the HTTP headers as (name, value) pairs,
\* and the authenticated user.
Req(path, query, headers, user) ==
    [path |-> path, query |-> query, headers |-> headers, user |-> user]

User(name, pk) == [anon |-> FALSE, name |-> name, pk |-> pk]
AnonymousUser ==
    [anon |-> TRUE,
     name |-> <<"A", "n", "o", "n", "y", "m", "o", "u", "s", "U", "s", "e", "r">>,
     pk |-> 0]

\* request.user.__str__() and f"{request.user.pk}"
UserStr(u) == u.name
UserPk(u) == IF u.anon THEN NoneStr ELSE IntStr(u.pk)

Lower == <<"a", "b", "c", "d", "e", "f", "g", "h", "i", "j", "k", "l", "m",
           "n", "o", "p", "q", "r", "s", "t", "u", "v", "w", "x", "y", "z">>
Upper == <<"A", "B", "C", "D", "E", "F", "G", "H", "I", "J", "K", "L", "M",
           "N", "O", "P", "Q", "R", "S", "T", "U", "V", "W", "X", "Y", "Z">>

UpperChar(c) ==
    IF c = "-" THEN "_"
    ELSE IF \E i \in 1..26 : Lower[i] = c
         THEN Upper[CHOOSE i \in 1..26 : Lower[i] = c]
         ELSE c

\* The key under which the WSGI handler files an HTTP header in request.META:
\* "HTTP_" + name.upper().replace("-", "_")
MetaKey(name) ==
    <<"H", "T", "T", "P", "_">> \o [i \in 1..Len(name) |-> UpperChar(name[i])]

\* request.META.get(key, None)
MetaGet(req, key) ==
    IF \E i \in 1..Len(req.headers) : MetaKey(req.headers[i][1]) = key
    THEN Some(req.headers[CHOOSE i \in 1..Len(req.headers) :
                              MetaKey(req.headers[i][1]) = key][2])
    ELSE None

\* QueryDict[name]: the last value given for the name
RECURSIVE LastValue(_, _)
LastValue(q, name) ==
    IF \E i \in 2..Len(q) : q[i][1] = name
    THEN LastValue(Tail(q), name)
    ELSE Head(q)[2]

\* request.GET.dict(): one item per name, in order of first appearance, each
\* with the last value given for it
RECURSIVE DictItems(_, _)
DictItems(q, seen) ==
    IF q = <<>> THEN <<>>
    ELSE IF Head(q)[1] \in seen THEN DictItems(Tail(q), seen)
         ELSE <<<<Head(q)[1], LastValue(q, Head(q)[1])>>>>
              \o DictItems(Tail(q), seen \cup {Head(q)[1]})

QueryDictToDict(q) == DictItems(q, {})

\* str() of a dict of texts: {'k': 'v', 'k2': 'v2'}
RECURSIVE ItemsStr(_)
ItemsStr(items) ==
    IF items = <<>> THEN <<>>
    ELSE <<"'">> \o Head(items)[1] \o <<"'", ":", " ", "'">> \o Head(items)[2]
         \o <<"'">>
         \o (IF Len(items) > 1 THEN <<",", " ">> ELSE <<>>)
         \o ItemsStr(Tail(items))

DictStr(items) == <<"{">> \o ItemsStr(items) \o <<"}">>

----------------------------------------------------------------------------
(* dj_drf_utils/cache/helpers.py *)

\* for header in vary_on_headers: s += f"_{request.META.get(header, None)}"
RECURSIVE HeadersSuffix(_, _)
HeadersSuffix(vary_on_headers, req) ==
    IF vary_on_headers = <<>> THEN <<>>
    ELSE <<"_">> \o FStr(MetaGet(req, Head(vary_on_headers)))
         \o HeadersSuffix(Tail(vary_on_headers), req)

\* variant: the user's pk left out of the group
UserSuffixWithoutPk(vary_on_user, req) ==
    IF vary_on_user THEN <<"_">> \o UserStr(req.user) ELSE <<>>

\* if vary_on_user: group += f"_{request.user.__str__()}_{request.user.pk}"
UserSuffix(vary_on_user, req) ==
    IF vary_on_user
    THEN <<"_">> \o UserStr(req.user) \o <<"_">> \o UserPk(req.user)
    ELSE <<>>

gen_cache_group(vary_on_headers, vary_on_user, req) ==
    Split(req.path, "/")[2]
    \o HeadersSuffix(vary_on_headers, req)
    \o UserSuffix(vary_on_user, req)

\* the value _gen_cache_key returns
gen_cache_key(vary_on_headers, vary_on_user, req) ==
    req.path \o <<"_">> \o DictStr(QueryDictToDict(req.query))
    \o HeadersSuffix(vary_on_headers, req)

\* The text custom_cache_page hashes into the key of the cached response,
\* f"{prefix}:{group}:{version}:{key}" with prefix None and version 0.  The
\* digest is modelled by its preimage: hash_key is taken to be injective.
HashedKey(group, key) == NoneStr \o <<":">> \o group \o <<":", "0", ":">> \o key

\* the key of the index entry gen_cache_key leaves in the cache
IndexKey(group, key) == group \o <<":">> \o key

----------------------------------------------------------------------------
(* The mixin families of dj_drf_utils/cache/mixins.py *)

Authorization ==
    <<"A", "u", "t", "h", "o", "r", "i", "z", "a", "t", "i", "o", "n">>

\* build_cache_mixins()
DefaultFamily == [headers |-> <<>>, user |-> FALSE]
\* build_cache_mixins(vary_on_headers=("Authorization",))
ByAuthTokenFamily == [headers |-> <<Authorization>>, user |-> FALSE]
\* build_cache_mixins(vary_on_user=True)
ByUserFamily == [headers |-> <<>>, user |-> TRUE]

\* timeout=cache_ttl of cache_page: 10 minutes, in units of 300 seconds
CACHE_TTL == 2
\* timeout of cache.get_or_set when none is passed: the backend's default,
\* 300 seconds
DEFAULT_TIMEOUT == 1

\* variant: the response cached with the backend's default timeout
PageTimeoutBackendDefault == DEFAULT_TIMEOUT
\* cache_page(timeout=cache_ttl, ...)
PageTimeout == CACHE_TTL

Group(req) == gen_cache_group(cfg.headers, cfg.user, req)
Key(req) == gen_cache_key(cfg.headers, cfg.user, req)
PageKey(req) == HashedKey(Group(req), Key(req))

----------------------------------------------------------------------------
(* Inputs *)

T(c) == <<c>>

Root == <<"/">>
PathU == <<"/", "u", "/">>
PathUs == <<"/", "u", "s", "/">>
PathSU == <<"/", "s", "/", "u", "/">>

NoQuery == <<>>
QueryS == << <<T("q"), T("s")>> >>
QueryUS == << <<T("q"), T("u")>>, <<T("q"), T("s")>> >>

Alice == User(T("u"), 1)
Bob == User(T("u"), 2)

AuthHeaders == { <<>>, << <<Authorization, T("t")>> >>,
                 << <<Authorization, T("v")>> >> }

\* the requests the clients of a deployment send, by the family its views use
Requests ==
    IF cfg = DefaultFamily
    THEN { Req(p, NoQuery, <<>>, Alice) : p \in {Root, PathU, PathUs, PathSU} }
         \cup { Req(PathU, q, <<>>, Alice) : q \in {QueryS, QueryUS} }
    ELSE IF cfg = ByUserFamily
    THEN { Req(PathU, NoQuery, <<>>, u) : u \in {Alice, Bob, AnonymousUser} }
         \cup { Req(PathUs, NoQuery, <<>>, Alice) }
    ELSE { Req(PathU, q, h, Alice) : q \in {NoQuery, QueryS}, h \in AuthHeaders }

\* the requests that write: a POST, PUT, PATCH or DELETE carries no query string
WriteRequests == { r \in Requests : r.query = <<>> }

NoReq == Req(<<>>, <<>>, <<>>, AnonymousUser)
NoResp == [data |-> -1, req |-> NoReq]

----------------------------------------------------------------------------
(* The cache backend *)

Put(f, k, v) == [x \in DOMAIN f \cup {k} |-> IF x = k THEN v ELSE f[x]]
Drop(f, ks) == [x \in DOMAIN f \ ks |-> f[x]]

\* cache.get_or_set(key, value): keeps a live entry, else sets it with the
\* backend's default timeout
GetOrSet(f, k, v) ==
    IF k \in DOMAIN f THEN f
    ELSE Put(f, k, [val |-> v, exp |-> now + DEFAULT_TIMEOUT])

\* cache.keys("*<group>*") on the index entries: a glob of plain text between
\* two stars matches the keys that contain the text
KeysMatching(group) == { k \in DOMAIN idx : Contains(k, group) }

\* cache.keys("*<group>*") on the hashed keys: a hexadecimal digest contains
\* no text of a group (path segments here use no hexadecimal digit), so it
\* matches only when the group is empty and the pattern is "**"
HashedKeysMatching(group) == IF group = <<>> THEN DOMAIN pages ELSE {}

----------------------------------------------------------------------------
(* State machine of the cache mixins *)

InitCache ==
    /\ now = 0
    /\ db = 0
    /\ idx = <<>>
    /\ pages = <<>>
    /\ last = [op |-> "none", req |-> NoReq, hit |-> FALSE, resp |-> NoResp]
    /\ fresh = {}

\* SetCacheOnListMixin.list under cache_page(timeout, key_func, group_func):
\* key_func files the index entry; a live cached response is returned as is,
\* otherwise the view's list runs and its response is cached for cache_ttl.
list(req) ==
    LET hk == PageKey(req)
        hit == hk \in DOMAIN pages
        resp == IF hit THEN pages[hk].resp ELSE [data |-> db, req |-> req]
    IN  /\ hit \/ Cardinality(DOMAIN pages) < MaxEntries
        /\ idx' = GetOrSet(idx, IndexKey(Group(req), Key(req)), hk)
        /\ pages' = IF hit THEN pages
                    ELSE Put(pages, hk, [resp |-> resp, exp |-> now + PageTimeout])
        /\ last' = [op |-> "list", req |-> req, hit |-> hit, resp |-> resp]
        /\ fresh' = IF hit THEN fresh
                    ELSE { f \in fresh : f.req # req }
                         \cup {[req |-> req, resp |-> resp,
                                 until |-> now + CACHE_TTL]}
        /\ UNCHANGED <<cfg, now, db, store, call>>

\* handle_delete_cache(request, vary_on_headers, vary_on_user), del_group=True
handle_delete_cache(req) ==
    LET cache_group == Group(req)
        group_keys == KeysMatching(cache_group)
        hashed_group_keys == HashedKeysMatching(cache_group)
        hashed_keys == { idx[k].val : k \in group_keys }
    IN  /\ idx' = Drop(idx, group_keys)
        /\ pages' = Drop(pages, hashed_keys \cup hashed_group_keys)

\* the view's own handler writes the data, then the group is erased
Mutation(op, req) ==
    /\ db < MaxWrites
    /\ db' = db + 1
    /\ handle_delete_cache(req)
    /\ last' = [op |-> op, req |-> req, hit |-> FALSE, resp |-> NoResp]
    /\ fresh' = {}
    /\ UNCHANGED <<cfg, now, store, call>>

\* EraseCacheOnCreateMixin.create
create(req) == Mutation("create", req)
\* EraseCacheOnUpdateMixin.update
update(req) == Mutation("update", req)
\* EraseCacheOnUpdateMixin.partial_update
partial_update(req) == Mutation("partial_update", req)
\* EraseCacheOnDestroyMixin.destroy
destroy(req) == Mutation("destroy", req)

\* time passes: the backend drops the entries whose timeout has elapsed
Tick ==
    /\ now < MaxTime
    /\ now' = now + 1
    /\ idx' = Drop(idx, { k \in DOMAIN idx : idx[k].exp <= now + 1 })
    /\ pages' = Drop(pages, { k \in DOMAIN pages : pages[k].exp <= now + 1 })
    /\ fresh' = { f \in fresh : f.until > now + 1 }
    /\ UNCHANGED <<cfg, db, last, store, call>>

NextCache ==
    \/ \E req \in Requests : list(req)
    \/ \E req \in WriteRequests : create(req)
    \/ \E req \in WriteRequests : update(req)
    \/ \E req \in WriteRequests : partial_update(req)
    \/ \E req \in WriteRequests : destroy(req)
    \/ Tick


----------------------------------------------------------------------------
(* The ORM the helpers query *)

\* Python None as a filter value or a dictionary value
PyNone == "<None>"

\* dictionaries: functions from names to values
EmptyDict == [k \in {} |-> PyNone]
\* d1.update(d2)
Update(d1, d2) ==
    [k \in DOMAIN d1 \cup DOMAIN d2 |-> IF k \in DOMAIN d2 THEN d2[k] ELSE d1[k]]
\* d.get(k)
DictGet(d, k) == IF k \in DOMAIN d THEN d[k] ELSE PyNone

\* The model class: a foreign key to the user, a UUIDField and an
\* IntegerField; every row holds value 1.
Fields == {"user", "category", "value"}
UserNames == {"alice", "bob"}
Uuids == {"c1", "c2"}
Ints == {"1", "2"}

Rows == [user : UserNames, category : Uuids, value : {"1"}]

\* The error the ORM raises when it builds the lookups of filter(**kwargs) or
\* get(**kwargs), taken in the sorted order of the names: FieldError for a
\* name that is no field, ValidationError for a text that is no uuid,
\* ValueError for a text that is no number.
LookupError(kwargs) ==
    IF \E k \in DOMAIN kwargs : k \notin Fields THEN "FieldError"
    ELSE IF "category" \in DOMAIN kwargs
            /\ kwargs["category"] \notin Uuids \cup {PyNone}
    THEN "ValidationError"
    ELSE IF "value" \in DOMAIN kwargs /\ kwargs["value"] \notin Ints \cup {PyNone}
    THEN "ValueError"
    ELSE "none"

Matching(kwargs) == { r \in store : \A k \in DOMAIN kwargs : r[k] = kwargs[k] }

Return(rows) == [kind |-> "return", rows |-> rows, exc |-> "none"]
Raise(exc) == [kind |-> "raise", rows |-> {}, exc |-> exc]

\* klass.objects.get(**kwargs)
objects_get(kwargs) ==
    IF LookupError(kwargs) # "none" THEN Raise(LookupError(kwargs))
    ELSE IF Matching(kwargs) = {} THEN Raise("DoesNotExist")
    ELSE IF Cardinality(Matching(kwargs)) > 1 THEN Raise("MultipleObjectsReturned")
    ELSE Return(Matching(kwargs))

\* klass.objects.filter(**kwargs)
objects_filter(kwargs) ==
    IF LookupError(kwargs) # "none" THEN Raise(LookupError(kwargs))
    ELSE Return(Matching(kwargs))

----------------------------------------------------------------------------
(* helpers.py *)

\* except (klass.DoesNotExist, ValidationError, ValueError, FieldError)
\* variant: ValueError and FieldError not caught
GetCaughtValidationOnly == {"DoesNotExist", "ValidationError"}
GetCaught == {"DoesNotExist", "ValidationError", "ValueError", "FieldError"}

\* except (ValidationError, ValueError, FieldError)
\* variant: ValueError and FieldError not caught
FilterCaughtValidationOnly == {"ValidationError"}
FilterCaught == {"ValidationError", "ValueError", "FieldError"}

get_object_or_error(exception, kwargs) ==
    LET got == objects_get(kwargs)
    IN  IF got.kind = "raise" /\ got.exc \in GetCaught THEN Raise(exception)
        ELSE got

\* if result or accept_empty: return result / raise error_klass
\* variant: accept_empty ignored
ReturnOrRaiseIgnoringAcceptEmpty(result, error_klass, accept_empty) ==
    IF result.rows # {} THEN result ELSE Raise(error_klass)
ReturnOrRaise(result, error_klass, accept_empty) ==
    IF result.rows # {} \/ accept_empty THEN result ELSE Raise(error_klass)

\* dj_drf_utils/helpers.py: a failed lookup counts as an empty result
get_list_or_error(error_klass, accept_empty, kwargs) ==
    LET got == objects_filter(kwargs)
    IN  IF got.kind = "raise" /\ got.exc \notin FilterCaught THEN got
        ELSE ReturnOrRaise(IF got.kind = "raise" THEN Return({}) ELSE got,
                           error_klass, accept_empty)

\* django_utils/helpers.py: a failed lookup raises error_klass
django_utils_get_list_or_error(error_klass, accept_empty, kwargs) ==
    LET got == objects_filter(kwargs)
    IN  IF got.kind = "raise"
        THEN (IF got.exc \in FilterCaught THEN Raise(error_klass) ELSE got)
        ELSE ReturnOrRaise(got, error_klass, accept_empty)

----------------------------------------------------------------------------
(* FilterQuerysetMixin of dj_drf_utils/mixins.py *)

\* request.GET.get(name): the last value given for the name, or None
QueryGet(query, name) ==
    IF \E i \in 1..Len(query) : query[i][1] = name
    THEN query[CHOOSE i \in 1..Len(query) :
                   query[i][1] = name /\ \A j \in (i + 1)..Len(query) : query[j][1] # name][2]
    ELSE PyNone

\* {self.user_key: self.request.user} if self.user_key else {}
UserFilter(view, req) ==
    IF view.user_key # PyNone THEN [k \in {view.user_key} |-> req.user] ELSE EmptyDict

\* {key: self.kwargs.get(value) for key, value in self.filter_kwargs.items()}
KwargsFilters(view, req) ==
    [k \in DOMAIN view.filter_kwargs |-> DictGet(req.kwargs, view.filter_kwargs[k])]

\* variant: a parameter present with an empty value is used as well
QueryParamFiltersKeepingEmpty(view, req) ==
    [k \in { f \in DOMAIN view.filter_query_params :
               QueryGet(req.query, view.filter_query_params[f]) # PyNone }
       |-> QueryGet(req.query, view.filter_query_params[k])]
\* the query parameters that are present with a non-empty value
QueryParamFilters(view, req) ==
    [k \in { f \in DOMAIN view.filter_query_params :
               QueryGet(req.query, view.filter_query_params[f]) \notin {PyNone, ""} }
       |-> QueryGet(req.query, view.filter_query_params[k])]

queryset_filters(view, req) ==
    Update(Update(Update(UserFilter(view, req), KwargsFilters(view, req)),
                  QueryParamFilters(view, req)),
           req.extra_filters)

\* variant: accept_empty not passed on, so that the helper's default applies
get_queryset_default_accept_empty(view, req) ==
    get_list_or_error(view.exception_klass, FALSE, queryset_filters(view, req))
get_queryset(view, req) ==
    get_list_or_error(view.exception_klass, view.accept_empty,
                      queryset_filters(view, req))

----------------------------------------------------------------------------
(* Inputs of the helpers *)

ErrorClasses == {"Http404", "RoomNotFoundError"}

Dict1(k, v) == [x \in {k} |-> v]

\* the keyword filters a caller passes
KwargsInputs ==
    { EmptyDict,
      Dict1("user", "alice"),
      Dict1("category", "c1"),
      Update(Dict1("category", "c1"), Dict1("user", "alice")),
      Dict1("category", "not-a-uuid"),
      Dict1("value", "abc"),
      Update(Dict1("category", "c1"), Dict1("value", "1")),
      Dict1("bogus", "1") }

\* the class properties of a view that uses FilterQuerysetMixin; accept_empty
\* is True unless the view declares it
Views ==
    [user_key : {PyNone, "user"},
     filter_kwargs : {EmptyDict, Dict1("category", "category_id")},
     filter_query_params : {EmptyDict, Dict1("value", "value")},
     exception_klass : {"NoTransactionsError"},
     accept_empty : BOOLEAN]
    \cup
    \* views that also filter the field of user_key by a URL kwarg or by a
    \* query parameter
    [user_key : {"user"},
     filter_kwargs : {Dict1("user", "user_id")},
     filter_query_params : {EmptyDict},
     exception_klass : {"NoTransactionsError"},
     accept_empty : {TRUE}]
    \cup
    [user_key : {"user"},
     filter_kwargs : {EmptyDict},
     filter_query_params : {Dict1("user", "owner")},
     exception_klass : {"NoTransactionsError"},
     accept_empty : {TRUE}]

\* a request as get_queryset reads it: the user, the URL kwargs, the query
\* string and the extra filters of the caller
ViewRequests ==
    LET R(user, kwargs, query, extra_filters) ==
            [user |-> user, kwargs |-> kwargs, query |-> query,
             extra_filters |-> extra_filters]
        c1 == Dict1("category_id", "c1")
    IN  { R("alice", c1, <<>>, EmptyDict),
          R("bob", c1, <<>>, EmptyDict),
          R("alice", c1, << <<"value", "1">> >>, EmptyDict),
          R("bob", Dict1("category_id", "not-a-uuid"), <<>>, EmptyDict),
          R("alice", c1, << <<"value", "abc">> >>, EmptyDict),
          R("alice", c1, << <<"value", "">> >>, EmptyDict),
          R("alice", EmptyDict, << <<"value", "2">>, <<"value", "1">> >>, EmptyDict),
          R("alice", c1, <<>>, Dict1("bogus", "1")),
          R("alice", Dict1("user_id", "bob"), <<>>, EmptyDict),
          R("alice", EmptyDict, << <<"owner", "bob">> >>, EmptyDict),
          R("alice", EmptyDict, <<>>, Dict1("user", "bob")) }

----------------------------------------------------------------------------
(* State machine of the helpers *)

\* for a call that is made outside a view
NoView ==
    [user_key |-> PyNone, filter_kwargs |-> EmptyDict,
     filter_query_params |-> EmptyDict, exception_klass |-> "none",
     accept_empty |-> FALSE]
NoViewRequest ==
    [user |-> PyNone, kwargs |-> EmptyDict, query |-> <<>>,
     extra_filters |-> EmptyDict]

InitOrm ==
    /\ store = {}
    /\ call = [fn |-> "none", pkg |-> "none", error_klass |-> "none",
               accept_empty |-> FALSE, kwargs |-> EmptyDict,
               view |-> NoView, req |-> NoViewRequest,
               lookup |-> Return({}), out |-> Return({})]

Save(row) ==
    /\ row \notin store
    /\ Cardinality(store) < MaxRows
    /\ store' = store \cup {row}
    /\ UNCHANGED <<call, cfg, now, db, idx, pages, last, fresh>>

Delete(row) ==
    /\ row \in store
    /\ store' = store \ {row}
    /\ UNCHANGED <<call, cfg, now, db, idx, pages, last, fresh>>

CallGetObject(exception, kwargs) ==
    /\ call' = [fn |-> "get_object_or_error", pkg |-> "dj_drf_utils",
                error_klass |-> exception, accept_empty |-> FALSE,
                kwargs |-> kwargs,
                view |-> NoView, req |-> NoViewRequest, lookup |-> objects_get(kwargs),
                out |-> get_object_or_error(exception, kwargs)]
    /\ UNCHANGED <<store, cfg, now, db, idx, pages, last, fresh>>

CallGetList(error_klass, accept_empty, kwargs) ==
    /\ call' = [fn |-> "get_list_or_error", pkg |-> "dj_drf_utils",
                error_klass |-> error_klass, accept_empty |-> accept_empty,
                kwargs |-> kwargs,
                view |-> NoView, req |-> NoViewRequest, lookup |-> objects_filter(kwargs),
                out |-> get_list_or_error(error_klass, accept_empty, kwargs)]
    /\ UNCHANGED <<store, cfg, now, db, idx, pages, last, fresh>>

CallGetListDjangoUtils(error_klass, accept_empty, kwargs) ==
    /\ call' = [fn |-> "get_list_or_error", pkg |-> "django_utils",
                error_klass |-> error_klass, accept_empty |-> accept_empty,
                kwargs |-> kwargs,
                view |-> NoView, req |-> NoViewRequest, lookup |-> objects_filter(kwargs),
                out |-> django_utils_get_list_or_error(error_klass, accept_empty,
                                                       kwargs)]
    /\ UNCHANGED <<store, cfg, now, db, idx, pages, last, fresh>>

CallGetQueryset(view, req) ==
    /\ call' = [fn |-> "get_queryset", pkg |-> "dj_drf_utils",
                error_klass |-> view.exception_klass,
                accept_empty |-> view.accept_empty,
                kwargs |-> queryset_filters(view, req),
                view |-> view, req |-> req,
                lookup |-> objects_filter(queryset_filters(view, req)),
                out |-> get_queryset(view, req)]
    /\ UNCHANGED <<store, cfg, now, db, idx, pages, last, fresh>>

NextOrm ==
    \/ \E row \in Rows : Save(row)
    \/ \E row \in Rows : Delete(row)
    \/ \E e \in ErrorClasses, kw \in KwargsInputs : CallGetObject(e, kw)
    \/ \E e \in ErrorClasses, a \in BOOLEAN, kw \in KwargsInputs : CallGetList(e, a, kw)
    \/ \E e \in ErrorClasses, a \in BOOLEAN, kw \in KwargsInputs :
          CallGetListDjangoUtils(e, a, kw)
    \/ \E view \in Views, req \in ViewRequests : CallGetQueryset(view, req)

----------------------------------------------------------------------------
(* Specifications *)

\* views built on the mixins of build_cache_mixins()
Init == cfg = DefaultFamily /\ InitCache /\ InitOrm
Next == NextCache
Spec == Init /\ [][Next]_vars

\* views built on the ...ByUserMixin family
InitByUser == cfg = ByUserFamily /\ InitCache /\ InitOrm
SpecByUser == InitByUser /\ [][NextCache]_vars

\* views built on the ...ByAuthTokenMixin family
InitByAuthToken == cfg = ByAuthTokenFamily /\ InitCache /\ InitOrm
SpecByAuthToken == InitByAuthToken /\ [][NextCache]_vars

\* callers of the helpers and views built on FilterQuerysetMixin
SpecOrm == Init /\ [][NextOrm]_vars

----------------------------------------------------------------------------
(* CustomUserManager of dj_drf_utils/managers.py *)

MaxUsers == 2

\* str.lower()
LowerChar(c) ==
    IF \E i \in 1..26 : Upper[i] = c
    THEN Lower[CHOOSE i \in 1..26 : Upper[i] = c]
    ELSE c
StrLower(s) == [i \in 1..Len(s) |-> LowerChar(s[i])]

\* d.pop(k) for a key that d holds: the dictionary that is left
Without(d, k) == [x \in DOMAIN d \ {k} |-> d[x]]

\* The user model: an AbstractUser whose login field is a unique email, with
\* an optional phone.
UserModelFields ==
    {"email", "password", "is_staff", "is_superuser", "is_active", "phone"}
UserDefaults ==
    [f \in UserModelFields |->
        CASE f = "email" -> <<>>
          [] f = "password" -> <<>>
          [] f = "is_staff" -> FALSE
          [] f = "is_superuser" -> FALSE
          [] f = "is_active" -> TRUE
          [] f = "phone" -> PyNone]

\* variant: only the login field and the password are forbidden
FORBIDDEN_FIELDS_LoginOnly(mgr) == {mgr.auth_field_name, "password"}
FORBIDDEN_FIELDS(mgr) ==
    {mgr.auth_field_name, "password", "is_staff", "is_superuser", "is_active"}

ManagerRaise(exc) == [kind |-> "raise", exc |-> exc, user |-> EmptyDict]
ManagerReturn(user) == [kind |-> "return", exc |-> "none", user |-> user]

\* for field in self.required_fields, from the i-th field on: the exception
\* raised, or the required values and the extra fields that are left
RECURSIVE RequiredLoop(_, _, _, _)
RequiredLoop(mgr, i, required_values, extra_fields) ==
    IF i > Len(mgr.required_fields)
    THEN [exc |-> "none", required_values |-> required_values,
          extra_fields |-> extra_fields]
    ELSE LET field == mgr.required_fields[i]
             failed == [exc |-> "ValidationError",
                        required_values |-> required_values,
                        extra_fields |-> extra_fields]
         IN  IF field \in FORBIDDEN_FIELDS(mgr) THEN failed
             ELSE IF field \notin UserModelFields THEN failed
             ELSE IF field \notin DOMAIN extra_fields THEN failed
             ELSE RequiredLoop(mgr, i + 1,
                               Update(required_values,
                                      Dict1(field, extra_fields[field])),
                               Without(extra_fields, field))

\* self.model(is_active=..., is_staff=..., **extra_fields, **required_values):
\* the names Python finds given twice in the call
\* variant: a name given twice is accepted and the later value wins
DuplicateKeywordsAccepted(extra_fields, required_values) == {}
DuplicateKeywords(extra_fields, required_values) ==
    {"is_active", "is_staff"}
        \cap (DOMAIN extra_fields \cup DOMAIN required_values)

\* user.set_password(password)
set_password(user, password) ==
    Update(user, Dict1("password", <<"hash", password>>))

\* CustomUserManager.create on a table of users: what it returns or raises,
\* and the table it leaves
create_user(mgr, password, extra_fields, table) ==
    IF mgr.auth_field_name \notin DOMAIN extra_fields
    THEN [out |-> ManagerRaise("ValidationError"), table |-> table]
    ELSE
      LET auth_field == extra_fields[mgr.auth_field_name]
          loop == RequiredLoop(mgr, 1,
                               Dict1(mgr.auth_field_name, StrLower(auth_field)),
                               Without(extra_fields, mgr.auth_field_name))
          kwargs == Update(Update([k \in {"is_active", "is_staff"} |->
                                      IF k = "is_active" THEN mgr.user_start_active
                                      ELSE mgr.user_is_staff],
                                  loop.extra_fields),
                           loop.required_values)
          user == set_password(Update(UserDefaults, kwargs), password)
      IN  IF loop.exc # "none"
          THEN [out |-> ManagerRaise(loop.exc), table |-> table]
          ELSE IF DuplicateKeywords(loop.extra_fields, loop.required_values) # {}
          THEN [out |-> ManagerRaise("TypeError"), table |-> table]
          ELSE IF \E k \in DOMAIN kwargs : k \notin UserModelFields
          THEN [out |-> ManagerRaise("TypeError"), table |-> table]
          ELSE IF \E u \in table : u[mgr.auth_field_name] = user[mgr.auth_field_name]
          THEN [out |-> ManagerRaise("IntegrityError"), table |-> table]
          ELSE [out |-> ManagerReturn(user), table |-> table \cup {user}]

\* CustomUserManager.create_superuser
create_superuser(mgr, password, extra_fields, table) ==
    LET created == create_user(mgr, password, extra_fields, table)
        user == Update(created.out.user,
                       [k \in {"is_superuser", "is_active", "is_staff"} |->
                           CASE k = "is_superuser" -> TRUE
                             [] k = "is_active" -> mgr.super_start_active
                             [] k = "is_staff" -> mgr.super_is_staff])
    IN  IF created.out.kind = "raise" THEN created
        ELSE [out |-> ManagerReturn(user),
              table |-> (created.table \ {created.out.user}) \cup {user}]

\* the class properties of a manager
Manager(user_staff, user_active, super_staff, super_active, required_fields) ==
    [auth_field_name |-> "email",
     user_is_staff |-> user_staff, user_start_active |-> user_active,
     super_is_staff |-> super_staff, super_start_active |-> super_active,
     required_fields |-> required_fields]

\* a manager with the defaults of the class, and managers that override them
Managers ==
    { Manager(FALSE, TRUE, TRUE, TRUE, <<>>),
      Manager(TRUE, FALSE, FALSE, FALSE, <<>>),
      Manager(FALSE, TRUE, TRUE, TRUE, <<"phone">>),
      Manager(TRUE, FALSE, FALSE, FALSE, <<"phone">>),
      Manager(FALSE, TRUE, TRUE, TRUE, <<"is_staff">>),
      Manager(FALSE, TRUE, TRUE, TRUE, <<"email">>),
      Manager(FALSE, TRUE, TRUE, TRUE, <<"phone", "password">>),
      Manager(FALSE, TRUE, TRUE, TRUE, <<"nickname">>) }

\* the keyword arguments of a call of create or create_superuser
ExtraFieldsInputs ==
    LET EmailA == <<"A", "@", "x">>
        EmailB == <<"b", "@", "x">>
    IN  { EmptyDict,
          Dict1("phone", "1"),
          Dict1("email", EmailA),
          Dict1("email", EmailB),
          Update(Dict1("email", EmailA), Dict1("phone", "1")),
          Update(Dict1("email", EmailA), Dict1("is_staff", TRUE)),
          Update(Dict1("email", EmailB), Dict1("is_active", FALSE)),
          Update(Dict1("email", EmailB), Dict1("is_superuser", TRUE)),
          Update(Update(Dict1("email", EmailA), Dict1("phone", "1")),
                 Dict1("is_staff", TRUE)),
          Update(Dict1("email", EmailA), Dict1("nickname", "al")) }

CallCreate(mgr, password, extra_fields) ==
    LET done == create_user(mgr, password, extra_fields, store)
    IN  /\ Cardinality(done.table) <= MaxUsers
        /\ call' = [fn |-> "create", mgr |-> mgr, password |-> password,
                    extra_fields |-> extra_fields, before |-> store,
                    out |-> done.out]
        /\ store' = done.table
        /\ UNCHANGED <<cfg, now, db, idx, pages, last, fresh>>

CallCreateSuperuser(mgr, password, extra_fields) ==
    LET done == create_superuser(mgr, password, extra_fields, store)
    IN  /\ Cardinality(done.table) <= MaxUsers
        /\ call' = [fn |-> "create_superuser", mgr |-> mgr,
                    password |-> password, extra_fields |-> extra_fields,
                    before |-> store, out |-> done.out]
        /\ store' = done.table
        /\ UNCHANGED <<cfg, now, db, idx, pages, last, fresh>>

NextManager ==
    \/ \E mgr \in Managers, pw \in {"pw"}, extra \in ExtraFieldsInputs :
          CallCreate(mgr, pw, extra)
    \/ \E mgr \in Managers, pw \in {"pw"}, extra \in ExtraFieldsInputs :
          CallCreateSuperuser(mgr, pw, extra)

\* callers of a CustomUserManager
InitManager ==
    /\ cfg = DefaultFamily
    /\ InitCache
    /\ store = {}
    /\ call = [fn |-> "none", mgr |-> Manager(FALSE, TRUE, TRUE, TRUE, <<>>),
               password |-> "pw", extra_fields |-> EmptyDict, before |-> {},
               out |-> ManagerRaise("none")]
SpecManager == InitManager /\ [][NextManager]_vars

----------------------------------------------------------------------------
(* The serializer mixins of dj_drf_utils/mixins.py and the attach-user mixins
   of power_tools/mixins.py *)

\* a Python list holds x
InList(x, l) == \E i \in 1..Len(l) : l[i] = x

\* d.get(k, default)
\* variant: the default is not passed on, as in d.get(k)
DictGetOrNone(d, k, default) == IF k \in DOMAIN d THEN d[k] ELSE PyNone
DictGetOr(d, k, default) == IF k \in DOMAIN d THEN d[k] ELSE default

\* what a method of a view returns or raises
ViewReturn(value) == [kind |-> "return", value |-> value, exc |-> "none"]
ViewRaise(exc) == [kind |-> "raise", value |-> PyNone, exc |-> exc]

\* SerializerByMethodMixin.get_serializer_class; method_serializers is None
\* unless the view declares it
SerializerByMethod_get_serializer_class(view, req) ==
    IF ~view.method_serializers.some THEN ViewRaise("AttributeError")
    ELSE ViewReturn(DictGetOr(view.method_serializers.v, req.method,
                              view.serializer_class))

\* SerializerByActionMixin.get_serializer_class; action_serializers is None
\* unless the view declares it
SerializerByAction_get_serializer_class(view, req) ==
    IF ~view.action_serializers.some THEN ViewRaise("AttributeError")
    ELSE ViewReturn(DictGetOr(view.action_serializers.v, req.action,
                              view.serializer_class))

\* variant: destroy is not a detail action
DETAIL_ACTIONS_WithoutDestroy == <<"retrieve", "update", "partial_update">>
DETAIL_ACTIONS == <<"retrieve", "update", "partial_update", "destroy">>

\* SerializerByDetailActionsMixin.get_serializer_class
SerializerByDetailActions_get_serializer_class(view, req) ==
    IF InList(req.action, DETAIL_ACTIONS)
    THEN ViewReturn(view.detail_serializer_class)
    ELSE ViewReturn(view.serializer_class)

\* the class property safe_actions when the view does not declare it
DefaultSafeActions == <<"list", "retrieve">>

\* the list that get_serializer_class looks the action up in
\* variant: self.safe_actions or ["list", "retrieve"], as in src/src/mixins.py
SafeActionsOrDefault(view) ==
    IF view.safe_actions = <<>> THEN DefaultSafeActions ELSE view.safe_actions
SafeActions(view) == view.safe_actions

\* SerializerBySafeActionsMixin.get_serializer_class
SerializerBySafeActions_get_serializer_class(view, req) ==
    IF InList(req.action, SafeActions(view))
    THEN ViewReturn(view.safe_serializer_class)
    ELSE ViewReturn(view.serializer_class)

\* a class property that neither the view nor one of its bases defines
Undefined == "<undefined>"

\* user_key = self.attach_user_key or self.filter_user_key or "user";
\* serializer.save(**{user_key: self.request.user}); the keyword arguments
\* that the serializer's save receives are what the method is seen to do
AttachUser(view, req) ==
    IF view.attach_user_key # PyNone
    THEN ViewReturn(Dict1(view.attach_user_key, req.user))
    ELSE IF view.filter_user_key = Undefined THEN ViewRaise("AttributeError")
    ELSE IF view.filter_user_key # PyNone
    THEN ViewReturn(Dict1(view.filter_user_key, req.user))
    ELSE ViewReturn(Dict1("user", req.user))

\* AttachUserOnCreateMixin.perform_create
perform_create(view, req) == AttachUser(view, req)

\* AttachUserOnUpdateMixin.perform_update
perform_update(view, req) == AttachUser(view, req)

\* views that use SerializerByMethodMixin
MethodViews ==
    [serializer_class : {"MySerializer"},
     method_serializers :
        {None, Some(EmptyDict), Some(Dict1("GET", "MyListSerializer")),
         Some(Update(Dict1("GET", "MyListSerializer"),
                     Dict1("POST", "MyCreateSerializer")))}]

\* views that use SerializerByActionMixin
ActionViews ==
    [serializer_class : {"MySerializer"},
     action_serializers :
        {None, Some(EmptyDict), Some(Dict1("list", "MyListSerializer")),
         Some(Update(Dict1("list", "MyListSerializer"),
                     Dict1("create", "MyCreateSerializer")))}]

\* views that use SerializerByDetailActionsMixin
DetailViews ==
    [serializer_class : {"MySerializer"},
     detail_serializer_class : {PyNone, "MyDetailSerializer"}]

\* views that use SerializerBySafeActionsMixin
SafeViews ==
    [serializer_class : {"MySerializer"},
     safe_serializer_class : {"MySafeSerializer"},
     safe_actions : {DefaultSafeActions, <<>>, <<"list">>,
                     <<"list", "retrieve", "metadata">>}]

\* views that use AttachUserOnCreateMixin or AttachUserOnUpdateMixin, with
\* or without the filter_user_key of FilterQuerysetMixin
AttachViews ==
    [attach_user_key : {PyNone, "author"},
     filter_user_key : {Undefined, PyNone, "owner"}]

\* the requests DRF routes to a viewset: the method and the action it maps
\* to (None when the method has no action)
RoutedRequests ==
    LET R(method, action) == [method |-> method, action |-> action]
    IN  { R("GET", "list"), R("GET", "retrieve"), R("POST", "create"),
          R("PUT", "update"), R("PATCH", "partial_update"),
          R("DELETE", "destroy"), R("OPTIONS", "metadata"),
          R("HEAD", PyNone) }

\* the requests that reach perform_create and perform_update
WriteViewRequests ==
    [method : {"POST"}, action : {"create"}, user : UserNames]
    \cup [method : {"PUT"}, action : {"update"}, user : UserNames]
    \cup [method : {"PATCH"}, action : {"partial_update"}, user : UserNames]

InitViews ==
    /\ cfg = DefaultFamily
    /\ InitCache
    /\ store = {}
    /\ call = [fn |-> "none", view |-> [serializer_class |-> PyNone],
               req |-> [method |-> PyNone, action |-> PyNone],
               out |-> ViewRaise("none")]

CallView(fn, view, req, out) ==
    /\ call' = [fn |-> fn, view |-> view, req |-> req, out |-> out]
    /\ UNCHANGED <<store, cfg, now, db, idx, pages, last, fresh>>

GetSerializerClassByMethod(view, req) ==
    CallView("SerializerByMethodMixin.get_serializer_class", view, req,
             SerializerByMethod_get_serializer_class(view, req))

GetSerializerClassByAction(view, req) ==
    CallView("SerializerByActionMixin.get_serializer_class", view, req,
             SerializerByAction_get_serializer_class(view, req))

GetSerializerClassByDetailActions(view, req) ==
    CallView("SerializerByDetailActionsMixin.get_serializer_class", view, req,
             SerializerByDetailActions_get_serializer_class(view, req))

GetSerializerClassBySafeActions(view, req) ==
    CallView("SerializerBySafeActionsMixin.get_serializer_class", view, req,
             SerializerBySafeActions_get_serializer_class(view, req))

PerformCreate(view, req) ==
    CallView("perform_create", view, req, perform_create(view, req))

PerformUpdate(view, req) ==
    CallView("perform_update", view, req, perform_update(view, req))

NextViews ==
    \/ \E view \in MethodViews, req \in RoutedRequests :
          GetSerializerClassByMethod(view, req)
    \/ \E view \in ActionViews, req \in RoutedRequests :
          GetSerializerClassByAction(view, req)
    \/ \E view \in DetailViews, req \in RoutedRequests :
          GetSerializerClassByDetailActions(view, req)
    \/ \E view \in SafeViews, req \in RoutedRequests :
          GetSerializerClassBySafeActions(view, req)
    \/ \E view \in AttachViews, req \in WriteViewRequests :
          req.action = "create" /\ PerformCreate(view, req)
    \/ \E view \in AttachViews, req \in WriteViewRequests :
          req.action # "create" /\ PerformUpdate(view, req)

\* views built on the serializer mixins and on the attach-user mixins
SpecViews == InitViews /\ [][NextViews]_vars

----------------------------------------------------------------------------
(* bulk_get_or_create of dj_drf_utils/helpers.py *)

MaxVideos == 3
MaxValues == 2

\* klass: a model with a title and a foreign key to a movie; a saved row
\* has an id as well

\* klass.objects.filter(**fields).first(): the matching row of lowest id, or
\* None
FirstMatch(fields, table) ==
    LET matches == { r \in table : \A k \in DOMAIN fields : r[k] = fields[k] }
    IN  IF matches = {} THEN None
        ELSE Some(CHOOSE r \in matches : \A q \in matches : r["id"] <= q["id"])

\* the INSERT queries of klass.objects.bulk_create(instances): one for all
\* the instances, none for an empty list
\* variant: every instance is saved by a query of its own
InsertQueriesPerInstance(instances) == Len(instances)
InsertQueries(instances) == IF instances = <<>> THEN 0 ELSE 1

\* klass.objects.bulk_create(instances): the saved instances, with their ids
bulk_create(instances, table) ==
    [j \in 1..Len(instances) |->
        Update(instances[j], Dict1("id", Cardinality(table) + j))]

\* for value in values, from the i-th value on
RECURSIVE BulkLoop(_, _, _, _, _, _)
BulkLoop(values, i, only_create, kwargs, table, acc) ==
    IF i > Len(values) THEN acc
    ELSE LET fields == Update(values[i], kwargs)
             match == FirstMatch(fields, table)
         IN  IF only_create
             THEN BulkLoop(values, i + 1, only_create, kwargs, table,
                           [acc EXCEPT !.instances_to_create = Append(@, fields)])
             ELSE IF match.some
             THEN BulkLoop(values, i + 1, only_create, kwargs, table,
                           [acc EXCEPT !.existing_instances = Append(@, match.v),
                                       !.lookups = @ + 1])
             ELSE BulkLoop(values, i + 1, only_create, kwargs, table,
                           [acc EXCEPT !.instances_to_create = Append(@, fields),
                                       !.lookups = @ + 1])

\* bulk_get_or_create(klass, values, only_create, **kwargs) on a table: what
\* it returns or raises, the queries it makes and the table it leaves
bulk_get_or_create(values, only_create, kwargs, table) ==
    LET acc == BulkLoop(values, 1, only_create, kwargs, table,
                        [instances_to_create |-> <<>>,
                         existing_instances |-> <<>>, lookups |-> 0])
        created == bulk_create(acc.instances_to_create, table)
    IN  IF \E i \in 1..Len(values) : DOMAIN values[i] \cap DOMAIN kwargs # {}
        THEN \* klass(**value, **kwargs): a keyword given twice
             [kind |-> "raise", exc |-> "TypeError", result |-> <<>>,
              lookups |-> 0, bulk_create_calls |-> 0, bulk_create_arg |-> <<>>,
              inserts |-> 0, table |-> table]
        ELSE [kind |-> "return", exc |-> "none",
              result |-> created \o acc.existing_instances,
              lookups |-> acc.lookups, bulk_create_calls |-> 1,
              bulk_create_arg |-> acc.instances_to_create,
              inserts |-> InsertQueries(acc.instances_to_create),
              table |-> table \cup { created[j] : j \in 1..Len(created) }]

\* the values argument: lists of dictionaries
ValuesInputs ==
    UNION { [1..n -> { Dict1("title", t) : t \in {"a", "b"} }] : n \in 0..MaxValues }

\* the extra keyword arguments
BulkKwargsInputs ==
    { Dict1("movie", m) : m \in {"m1", "m2"} }
        \cup { Update(Dict1("movie", "m1"), Dict1("title", "a")) }

InitBulk ==
    /\ cfg = DefaultFamily
    /\ InitCache
    /\ store = {}
    /\ call = [fn |-> "none", values |-> <<>>, only_create |-> FALSE,
               kwargs |-> EmptyDict, before |-> {},
               out |-> bulk_get_or_create(<<>>, FALSE, EmptyDict, {})]

CallBulkGetOrCreate(values, only_create, kwargs) ==
    LET done == bulk_get_or_create(values, only_create, kwargs, store)
    IN  /\ Cardinality(done.table) <= MaxVideos
        /\ call' = [fn |-> "bulk_get_or_create", values |-> values,
                    only_create |-> only_create, kwargs |-> kwargs,
                    before |-> store, out |-> done]
        /\ store' = done.table
        /\ UNCHANGED <<cfg, now, db, idx, pages, last, fresh>>

NextBulk ==
    \E values \in ValuesInputs, only_create \in BOOLEAN, kwargs \in BulkKwargsInputs :
        CallBulkGetOrCreate(values, only_create, kwargs)

\* callers of bulk_get_or_create
SpecBulk == InitBulk /\ [][NextBulk]_vars

----------------------------------------------------------------------------
(* build_retrieve_update_destroy_docs of dj_drf_utils/docs.py *)

\* the default of summary and of description
Blank == <<" ">>

\* what @extend_schema is given for one method of the mixin
Schema(summary, description, args) ==
    [summary |-> summary, description |-> description, args |-> args]

\* build_retrieve_docs / build_update_docs / build_destroy_docs called as
\* f(summary, *positional): description is the first of the positional
\* arguments when there is one, and " " when there is none
BuildDocs(summary, positional) ==
    IF positional = <<>> THEN Schema(summary, Blank, <<>>)
    ELSE Schema(summary, Head(positional), Tail(positional))

build_retrieve_docs(summary, positional) == BuildDocs(summary, positional)
build_update_docs(summary, positional) == BuildDocs(summary, positional)
build_destroy_docs(summary, positional) == BuildDocs(summary, positional)

\* _check_keys_by_action on one dictionary: the dictionary it leaves
check_keys_by_action(d, actions_list) ==
    [a \in DOMAIN d \cup { actions_list[i] : i \in 1..Len(actions_list) } |->
        IF a \in DOMAIN d THEN d[a] ELSE Blank]

\* the mixin build_retrieve_update_destroy_docs returns for the dictionaries
\* _check_keys_by_action has filled: the schema of each method
RetrieveUpdateDestroyDocsMixin(summaries, descriptions, args) ==
    [get |-> build_retrieve_docs(summaries["retrieve"], args),
     put |-> build_update_docs(summaries["update"], args),
     patch |-> build_update_docs(summaries["update"], args),
     delete |-> build_destroy_docs(summaries["destroy"],
                                   <<descriptions["destroy"]>> \o args)]

DocActions == <<"retrieve", "update", "destroy">>

\* the dictionaries a caller passes, with the text kind for each of the
\* actions keys, or None when it passes none and the default dictionary of
\* the function is used
DictInputs(kind) ==
    {None} \cup { Some([a \in keys |-> <<kind, a>>]) :
                    keys \in SUBSET {"retrieve", "update", "destroy"} }

\* the other positional arguments, handed on to @extend_schema
ArgsInputs == { <<>>, << <<"parameters">> >> }

\* store holds the two default dictionaries of the function, which
\* _check_keys_by_action fills in place
InitDocs ==
    /\ cfg = DefaultFamily
    /\ InitCache
    /\ store = [summaries |-> EmptyDict, descriptions |-> EmptyDict]
    /\ call = [fn |-> "none", summaries |-> None, descriptions |-> None,
               args |-> <<>>, filled |-> store,
               out |-> RetrieveUpdateDestroyDocsMixin(
                          check_keys_by_action(EmptyDict, DocActions),
                          check_keys_by_action(EmptyDict, DocActions), <<>>)]

CallBuildRetrieveUpdateDestroyDocs(summaries, descriptions, args) ==
    LET s == check_keys_by_action(IF summaries.some THEN summaries.v
                                  ELSE store.summaries, DocActions)
        d == check_keys_by_action(IF descriptions.some THEN descriptions.v
                                  ELSE store.descriptions, DocActions)
    IN  /\ call' = [fn |-> "build_retrieve_update_destroy_docs",
                    summaries |-> summaries, descriptions |-> descriptions,
                    args |-> args,
                    filled |-> [summaries |-> s, descriptions |-> d],
                    out |-> RetrieveUpdateDestroyDocsMixin(s, d, args)]
        /\ store' = [summaries |-> IF summaries.some THEN store.summaries ELSE s,
                     descriptions |-> IF descriptions.some THEN store.descriptions
                                      ELSE d]
        /\ UNCHANGED <<cfg, now, db, idx, pages, last, fresh>>

NextDocs ==
    \E summaries \in DictInputs("summary"), descriptions \in DictInputs("description"),
       args \in ArgsInputs :
        CallBuildRetrieveUpdateDestroyDocs(summaries, descriptions, args)

\* modules that build their docs mixin with build_retrieve_update_destroy_docs
SpecDocs == InitDocs /\ [][NextDocs]_vars

----------------------------------------------------------------------------
(* CustomUserAdmin of dj_drf_utils/admin.py *)

MaxAdded == 1

\* the names the class body reads on the user model, in the order it reads
\* them
OptionalFields ==
    <<"last_login", "date_joined", "first_name", "last_name", "is_active",
      "is_staff", "is_superuser", "groups", "user_permissions">>

\* The user model get_user_model() returns, as the class body sees it: for
\* each name, "field" when the class has a model field of that name (the
\* attribute is a descriptor, which is true), "None" when the class sets the
\* name to None to drop an inherited field, "True" when the name is a plain
\* class attribute and no field (is_active of AbstractBaseUser), and
\* "undefined" when the class has no such attribute.
UserModel(attr) == [USERNAME_FIELD |-> "email", attr |-> attr]

AbstractUserAttrs == [f \in {OptionalFields[i] : i \in 1..9} |-> "field"]

\* AbstractBaseUser: password, last_login and the class attribute is_active
AbstractBaseUserAttrs ==
    [f \in {OptionalFields[i] : i \in 1..9} |->
        CASE f = "last_login" -> "field"
          [] f = "is_active" -> "True"
          [] OTHER -> "undefined"]

\* AbstractBaseUser with PermissionsMixin
WithPermissionsMixin(attr) ==
    [f \in DOMAIN attr |->
        IF f \in {"is_superuser", "groups", "user_permissions"} THEN "field"
        ELSE attr[f]]

UserModelClasses ==
    { UserModel([f \in DOMAIN AbstractUserAttrs |->
                    IF f \in dropped THEN "None" ELSE "field"]) :
        dropped \in { d \in SUBSET DOMAIN AbstractUserAttrs : Cardinality(d) <= 2 } }
    \cup { UserModel(AbstractBaseUserAttrs),
           UserModel(WithPermissionsMixin(AbstractBaseUserAttrs)),
           UserModel([WithPermissionsMixin(AbstractBaseUserAttrs)
                         EXCEPT !["is_active"] = "field", !["is_staff"] = "field"]),
           UserModel([AbstractUserAttrs EXCEPT !["date_joined"] = "undefined"]),
           UserModel([AbstractUserAttrs EXCEPT !["is_active"] = "True"]) }

\* if auth_user_class.<name>: the names of a group that the class body adds
TruthyFields(model, names) ==
    SelectSeq(names, LAMBDA f : model.attr[f] \in {"field", "True"})

\* The class body of CustomUserAdmin for a user model: the class attributes
\* it leaves, or the AttributeError of the first name the model has not
CustomUserAdmin(model) ==
    IF \E i \in 1..Len(OptionalFields) : model.attr[OptionalFields[i]] = "undefined"
    THEN [kind |-> "raise", exc |-> "AttributeError", built |-> FALSE,
          list_display |-> <<>>, fieldsets |-> <<>>, add_fieldsets |-> <<>>,
          search_fields |-> <<>>, ordering |-> <<>>]
    ELSE [kind |-> "return", exc |-> "none", built |-> TRUE,
          list_display |->
              <<model.USERNAME_FIELD>>
                 \o TruthyFields(model, <<"first_name", "last_name", "is_staff",
                                          "is_superuser">>),
          fieldsets |->
              << <<"None", <<model.USERNAME_FIELD, "password">> >>,
                 <<"Personal info",
                   TruthyFields(model, <<"first_name", "last_name">>)>>,
                 <<"Permissions",
                   TruthyFields(model, <<"is_active", "is_staff", "is_superuser",
                                         "groups", "user_permissions">>)>>,
                 <<"Important dates",
                   TruthyFields(model, <<"last_login", "date_joined">>)>> >>,
          add_fieldsets |->
              << <<"None", <<model.USERNAME_FIELD, "password1", "password2">> >> >>,
          search_fields |->
              <<model.USERNAME_FIELD>>
                 \o TruthyFields(model, <<"first_name", "last_name">>),
          ordering |-> <<model.USERNAME_FIELD>>]

\* store holds the class attributes of CustomUserAdmin once the module is
\* imported; call holds the user model the settings point to
InitAdmin ==
    /\ cfg = DefaultFamily
    /\ InitCache
    /\ store = CustomUserAdmin(UserModel(AbstractUserAttrs))
    /\ call = [fn |-> "none", model |-> UserModel(AbstractUserAttrs), added |-> 0]

\* import of dj_drf_utils.admin in a project whose AUTH_USER_MODEL is model
ImportAdmin(model) ==
    /\ call.fn = "none"
    /\ call' = [fn |-> "CustomUserAdmin", model |-> model, added |-> 0]
    /\ store' = CustomUserAdmin(model)
    /\ UNCHANGED <<cfg, now, db, idx, pages, last, fresh>>

\* cls.add_fieldsets[0][1]["fields"] += fields
add_creation_fields(fields) ==
    /\ call.fn # "none" /\ store.built /\ call.added < MaxAdded
    /\ store' = [store EXCEPT !.add_fieldsets[1][2] = @ \o fields]
    /\ call' = [call EXCEPT !.fn = "add_creation_fields", !.added = @ + 1]
    /\ UNCHANGED <<cfg, now, db, idx, pages, last, fresh>>

\* cls.list_display += fields
add_list_display(fields) ==
    /\ call.fn # "none" /\ store.built /\ call.added < MaxAdded
    /\ store' = [store EXCEPT !.list_display = @ \o fields]
    /\ call' = [call EXCEPT !.fn = "add_list_display", !.added = @ + 1]
    /\ UNCHANGED <<cfg, now, db, idx, pages, last, fresh>>

\* cls.fieldsets[1][1]["fields"] += fields
add_personal_info(fields) ==
    /\ call.fn # "none" /\ store.built /\ call.added < MaxAdded
    /\ store' = [store EXCEPT !.fieldsets[2][2] = @ \o fields]
    /\ call' = [call EXCEPT !.fn = "add_personal_info", !.added = @ + 1]
    /\ UNCHANGED <<cfg, now, db, idx, pages, last, fresh>>

NextAdmin ==
    \/ \E model \in UserModelClasses : ImportAdmin(model)
    \/ \E fields \in { <<"cpf">>, <<"cpf", "phone">> } : add_creation_fields(fields)
    \/ \E fields \in { <<"cpf">>, <<"cpf", "phone">> } : add_list_display(fields)
    \/ \E fields \in { <<"cpf">>, <<"cpf", "phone">> } : add_personal_info(fields)

\* projects that register their user model with CustomUserAdmin
SpecAdmin == InitAdmin /\ [][NextAdmin]_vars

----------------------------------------------------------------------------
(* Properties of the cache mixins *)

MutationOps == {"create", "update", "partial_update", "destroy"}

\* the cache group under which a cached response was filed
PageGroup(h) == Group(pages[h].resp.req)

\* the cache groups of the requests that file the index key k
IndexGroups(k) ==
    { Group(r) : r \in { x \in Requests : IndexKey(Group(x), Key(x)) = k } }

\* C1: when create, update, partial_update or destroy has returned, no
\* response that list cached in the cache group of the request is left in
\* the cache.
C1_ErasedAfterMutation ==
    last.op \in MutationOps =>
        \A h \in DOMAIN pages : PageGroup(h) # Group(last.req)

\* C2: a mutation leaves every cache entry of every other cache group as it
\* was: the cached responses and the index entries filed under a group other
\* than the request's own.
C2_EraseWithinGroup ==
    [][db' # db =>
        /\ \A h \in DOMAIN pages :
              PageGroup(h) # Group(last'.req) =>
                  h \in DOMAIN pages' /\ pages'[h] = pages[h]
        /\ \A k \in DOMAIN idx :
              Group(last'.req) \notin IndexGroups(k) =>
                  k \in DOMAIN idx' /\ idx'[k] = idx[k]]_vars

\* C3: a list request whose response the view produced and cached, repeated
\* before the TTL has elapsed and with no erase in between, is answered with
\* that cached response, and the view's list does not run again.
C3_CachedListIsServed ==
    [][\A req \in Requests : \A f \in fresh :
          (f.req = req /\ list(req)) =>
              /\ last'.hit
              /\ last'.resp = f.resp
              /\ pages' = pages]_vars

C3_Witness ==
    /\ last.op = "list"
    /\ last.hit
    /\ \E f \in fresh : f.req = last.req /\ f.resp = last.resp
    /\ now > 0
    /\ Cardinality(DOMAIN pages) > 1

\* C4: with vary_on_user=True two requests that differ only in the user get
\* different cache groups and are cached under different keys, and a list
\* request is never answered with a response produced for another user.
C4_UserIsolation ==
    /\ \A r1, r2 \in Requests :
          (r1.user # r2.user /\ r1.path = r2.path /\ r1.query = r2.query
             /\ r1.headers = r2.headers) =>
              Group(r1) # Group(r2) /\ PageKey(r1) # PageKey(r2)
    /\ last.op = "list" => last.resp.req.user = last.req.user

C4_Witness ==
    /\ cfg.user
    /\ last.op = "list"
    /\ last.hit
    /\ \E h \in DOMAIN pages :
          /\ pages[h].resp.req.user # last.req.user
          /\ pages[h].resp.req.path = last.req.path

\* C5: with vary_on_headers=("Authorization",) a list request repeated with
\* another value of the Authorization header gets another cache key and
\* another cache group, and is not answered from the cache of the first.
C5_HeaderIsolation ==
    last.op = "list" =>
        /\ last.resp.req.headers = last.req.headers
        /\ \A h \in DOMAIN pages :
              LET r == pages[h].resp.req
              IN  (r.headers # last.req.headers /\ r.path = last.req.path
                     /\ r.query = last.req.query /\ r.user = last.req.user) =>
                      Group(r) # Group(last.req) /\ Key(r) # Key(last.req)

\* C6: the request answered last and a request whose response is cached have
\* the same cache key exactly when they have the same path and the same
\* query parameters, and the same cache group exactly when their paths have
\* the same first segment.
C6_KeyIffPathAndQuery ==
    last.op = "list" =>
        \A h \in DOMAIN pages :
            LET r == pages[h].resp.req
            IN  /\ (Key(r) = Key(last.req))
                      <=> (r.path = last.req.path /\ r.query = last.req.query)
                /\ (Group(r) = Group(last.req))
                      <=> (Split(r.path, "/")[2] = Split(last.req.path, "/")[2])

----------------------------------------------------------------------------
(* Properties of the helpers and of FilterQuerysetMixin *)

LookupErrors == {"ValidationError", "ValueError", "FieldError"}

\* C7: get_object_or_error returns the single matching object, raises the
\* caller's exception when the lookup finds nothing or its values are
\* invalid, and lets none of DoesNotExist, ValidationError, ValueError,
\* FieldError reach the caller.
C7_GetObjectOrError ==
    call.fn = "get_object_or_error" =>
        /\ call.lookup.kind = "return" => call.out = call.lookup
        /\ (call.lookup.kind = "raise"
              /\ call.lookup.exc \in LookupErrors \cup {"DoesNotExist"}) =>
               call.out = Raise(call.error_klass)
        /\ call.out.exc \notin LookupErrors \cup {"DoesNotExist"}

C7_Witness ==
    /\ call.fn = "get_object_or_error"
    /\ call.lookup.exc = "ValueError"
    /\ call.error_klass = "RoomNotFoundError"
    /\ call.out = Raise("RoomNotFoundError")

\* C8: when the filter succeeds, get_list_or_error with accept_empty=False
\* returns a non-empty result and raises error_klass for an empty one; with
\* accept_empty=True it returns the result, empty or not.
C8_GetListOrError ==
    (call.fn = "get_list_or_error" /\ call.lookup.kind = "return") =>
        IF call.accept_empty \/ call.lookup.rows # {}
        THEN call.out = call.lookup
        ELSE call.out = Raise(call.error_klass)

C8_Witness ==
    /\ call.fn = "get_list_or_error"
    /\ call.accept_empty
    /\ call.lookup = Return({})
    /\ call.out = Return({})
    /\ store # {}

\* C9 as stated: a lookup that fails makes get_list_or_error, and
\* get_queryset through it, raise the configured exception class, whatever
\* accept_empty is.
C9_LookupFailureRaises ==
    (call.fn \in {"get_list_or_error", "get_queryset"}
       /\ call.lookup.kind = "raise" /\ call.lookup.exc \in LookupErrors) =>
        call.out = Raise(call.error_klass)

\* C9 amended: a lookup that fails makes get_list_or_error of dj_drf_utils,
\* and get_queryset through it, raise the configured exception class when
\* accept_empty is False and return an empty list when it is True; the
\* get_list_or_error of django_utils raises it whatever accept_empty is.
C9_LookupFailureCountsAsEmpty ==
    (call.fn \in {"get_list_or_error", "get_queryset"}
       /\ call.lookup.kind = "raise" /\ call.lookup.exc \in LookupErrors) =>
        IF call.pkg = "django_utils" \/ ~call.accept_empty
        THEN call.out = Raise(call.error_klass)
        ELSE call.out = Return({})

C9_Witness ==
    /\ call.fn = "get_queryset"
    /\ call.lookup.exc = "ValidationError"
    /\ call.accept_empty
    /\ call.out = Return({})

\* C10: get_queryset of a view that leaves accept_empty at True never raises
\* exception_klass, and answers an empty result with an empty value.
C10_AcceptEmptyNeverRaises ==
    (call.fn = "get_queryset" /\ call.accept_empty) =>
        /\ call.out.kind = "return"
        /\ call.lookup = Return({}) => call.out = Return({})

C10_Witness ==
    /\ call.fn = "get_queryset"
    /\ call.accept_empty
    /\ call.lookup = Return({})
    /\ call.out = Return({})
    /\ store # {}

\* C11: when user_key is set, every object that get_queryset returns is
\* attached to the user of the request, whatever the URL kwargs, the query
\* parameters, the extra filters and the filter_kwargs and
\* filter_query_params of the view are.
C11_OnlyOwnObjects ==
    (call.fn = "get_queryset" /\ call.view.user_key # PyNone
       /\ call.out.kind = "return") =>
        \A r \in call.out.rows : r[call.view.user_key] = call.req.user

\* the filters get_queryset holds before it reads the query parameters, with
\* the extra filters of the caller on top
FiltersBesidesQueryParams(view, req) ==
    Update(Update(UserFilter(view, req), KwargsFilters(view, req)),
           req.extra_filters)

\* C12: a query parameter of filter_query_params that the request leaves out
\* or gives with an empty value adds no filter: the field it is mapped to is
\* filtered as it is without the parameter. A parameter given with a value
\* adds the filter field = value, which only an extra filter of the caller
\* on the same field replaces.
C12_QueryParamsOptional ==
    call.fn = "get_queryset" =>
        \A f \in DOMAIN call.view.filter_query_params :
            LET v == QueryGet(call.req.query, call.view.filter_query_params[f])
                rest == FiltersBesidesQueryParams(call.view, call.req)
            IN  IF v \in {PyNone, ""}
                THEN /\ f \in DOMAIN call.kwargs <=> f \in DOMAIN rest
                     /\ f \in DOMAIN rest => call.kwargs[f] = rest[f]
                ELSE /\ f \in DOMAIN call.kwargs
                     /\ f \notin DOMAIN call.req.extra_filters =>
                            call.kwargs[f] = v

C12_Witness ==
    /\ call.fn = "get_queryset"
    /\ call.view.filter_query_params = Dict1("value", "value")
    /\ call.req.query = << <<"value", "">> >>
    /\ "value" \notin DOMAIN call.kwargs
    /\ call.out.kind = "return"
    /\ call.out.rows # {}

----------------------------------------------------------------------------
(* Properties of CustomUserManager *)

\* C13: create raises ValidationError and saves no user when the login field
\* is not among the keyword arguments, when required_fields names the login
\* field, password, is_staff, is_superuser or is_active, when it names
\* something that is no field of the model, or when the value of a required
\* field is not among the keyword arguments.
C13_CreateValidates ==
    (/\ call.fn = "create"
     /\ \/ call.mgr.auth_field_name \notin DOMAIN call.extra_fields
        \/ \E i \in 1..Len(call.mgr.required_fields) :
              LET field == call.mgr.required_fields[i]
              IN  \/ field \in {call.mgr.auth_field_name, "password", "is_staff",
                                "is_superuser", "is_active"}
                  \/ field \notin UserModelFields
                  \/ field \notin DOMAIN call.extra_fields) =>
        /\ call.out = ManagerRaise("ValidationError")
        /\ store = call.before

C13_Witness ==
    /\ call.fn = "create"
    /\ call.mgr.required_fields = <<"is_staff">>
    /\ "is_staff" \in DOMAIN call.extra_fields
    /\ "email" \in DOMAIN call.extra_fields
    /\ call.out = ManagerRaise("ValidationError")
    /\ store # {}

\* C14: create saves at most the user it returns, and that user has is_staff
\* = user_is_staff and is_active = user_start_active whatever keyword
\* arguments it was given; the user create_superuser returns is saved with
\* is_superuser True, is_staff = super_is_staff and is_active =
\* super_start_active.
C14_StartingFlags ==
    /\ call.fn \in {"create", "create_superuser"} =>
          IF call.out.kind = "return"
          THEN store = call.before \cup {call.out.user}
          ELSE store = call.before
    /\ (call.fn = "create" /\ call.out.kind = "return") =>
          /\ call.out.user["is_staff"] = call.mgr.user_is_staff
          /\ call.out.user["is_active"] = call.mgr.user_start_active
    /\ (call.fn = "create_superuser" /\ call.out.kind = "return") =>
          /\ call.out.user["is_superuser"]
          /\ call.out.user["is_staff"] = call.mgr.super_is_staff
          /\ call.out.user["is_active"] = call.mgr.super_start_active

C14_Witness ==
    /\ call.fn = "create_superuser"
    /\ call.out.kind = "return"
    /\ ~call.mgr.super_is_staff
    /\ ~call.mgr.super_start_active
    /\ call.mgr.required_fields = <<"phone">>
    /\ call.out.user \in store
    /\ \E u \in store : ~u["is_superuser"] /\ u["is_staff"] /\ ~u["is_active"]

----------------------------------------------------------------------------
(* Properties of the serializer mixins and of the attach-user mixins *)

\* C15: SerializerByMethodMixin.get_serializer_class returns
\* method_serializers[request.method] when the method is a key of the
\* dictionary and serializer_class otherwise, and
\* SerializerByActionMixin.get_serializer_class does the same with
\* action_serializers and the action.
C15_SerializerByKey ==
    /\ (call.fn = "SerializerByMethodMixin.get_serializer_class"
          /\ call.view.method_serializers.some) =>
           call.out =
              ViewReturn(IF call.req.method \in DOMAIN call.view.method_serializers.v
                         THEN call.view.method_serializers.v[call.req.method]
                         ELSE call.view.serializer_class)
    /\ (call.fn = "SerializerByActionMixin.get_serializer_class"
          /\ call.view.action_serializers.some) =>
           call.out =
              ViewReturn(IF call.req.action \in DOMAIN call.view.action_serializers.v
                         THEN call.view.action_serializers.v[call.req.action]
                         ELSE call.view.serializer_class)

C15_Witness ==
    /\ call.fn = "SerializerByActionMixin.get_serializer_class"
    /\ call.req.action = "retrieve"
    /\ DOMAIN call.view.action_serializers.v = {"list", "create"}
    /\ call.out = ViewReturn("MySerializer")

\* C16: SerializerByDetailActionsMixin.get_serializer_class returns
\* detail_serializer_class when the action is retrieve, update,
\* partial_update or destroy, and serializer_class for every other action.
C16_DetailSerializer ==
    call.fn = "SerializerByDetailActionsMixin.get_serializer_class" =>
        call.out =
            ViewReturn(IF call.req.action \in {"retrieve", "update",
                                               "partial_update", "destroy"}
                       THEN call.view.detail_serializer_class
                       ELSE call.view.serializer_class)

C16_Witness ==
    /\ call.fn = "SerializerByDetailActionsMixin.get_serializer_class"
    /\ call.req.action = "destroy"
    /\ call.out = ViewReturn("MyDetailSerializer")

\* C17: SerializerBySafeActionsMixin.get_serializer_class returns
\* safe_serializer_class exactly when the action is in the safe_actions of
\* the view, which is the list the view declares, and list and retrieve when
\* it declares none.
C17_SafeSerializer ==
    call.fn = "SerializerBySafeActionsMixin.get_serializer_class" =>
        /\ call.out.kind = "return"
        /\ call.out.value = call.view.safe_serializer_class
              <=> InList(call.req.action, call.view.safe_actions)
        /\ call.out.value = call.view.serializer_class
              <=> ~InList(call.req.action, call.view.safe_actions)

C17_Witness ==
    /\ call.fn = "SerializerBySafeActionsMixin.get_serializer_class"
    /\ call.view.safe_actions = <<>>
    /\ call.req.action = "list"
    /\ call.out = ViewReturn("MySerializer")

\* C18: perform_create and perform_update call serializer.save with the user
\* of the request under exactly one key: attach_user_key when it is set,
\* else the filter_user_key of the view when one is found, else "user"; no
\* error is raised.
C18_AttachUserKey ==
    call.fn \in {"perform_create", "perform_update"} =>
        /\ call.out.kind = "return"
        /\ call.out.value =
              Dict1(IF call.view.attach_user_key # PyNone
                    THEN call.view.attach_user_key
                    ELSE IF call.view.filter_user_key \notin {Undefined, PyNone}
                    THEN call.view.filter_user_key
                    ELSE "user",
                    call.req.user)

----------------------------------------------------------------------------
(* Properties of bulk_get_or_create *)

\* the values of a call that match no row of the table the call found
Unmatched(values, kwargs, table) ==
    { i \in 1..Len(values) : ~FirstMatch(Update(values[i], kwargs), table).some }

\* C19 as stated: a call of bulk_get_or_create that returns has invoked
\* bulk_create once with all the instances to create, which is exactly one
\* INSERT, and with only_create=True it has made no lookup query, so that
\* the whole call is exactly one database hit.
C19_SingleInsert ==
    (call.fn = "bulk_get_or_create" /\ call.out.kind = "return") =>
        /\ call.out.bulk_create_calls = 1
        /\ call.out.inserts = 1
        /\ call.only_create =>
              /\ call.out.lookups = 0
              /\ call.out.lookups + call.out.inserts = 1

\* C19 amended: a call of bulk_get_or_create that returns has invoked
\* bulk_create once, with one instance for every value when only_create is
\* True and for every value that matched no row otherwise; that is one INSERT
\* when there is an instance to create and none when there is not. With
\* only_create=True it has made no lookup query, so that the whole call is
\* one database hit, or none for an empty list of values; without it, it has
\* made one lookup query for every value.
C19_SingleInsertUnlessEmpty ==
    (call.fn = "bulk_get_or_create" /\ call.out.kind = "return") =>
        /\ call.out.bulk_create_calls = 1
        /\ Len(call.out.bulk_create_arg) =
              IF call.only_create THEN Len(call.values)
              ELSE Cardinality(Unmatched(call.values, call.kwargs, call.before))
        /\ Cardinality(store) = Cardinality(call.before)
                                   + Len(call.out.bulk_create_arg)
        /\ call.out.inserts = IF call.out.bulk_create_arg = <<>> THEN 0 ELSE 1
        /\ call.out.lookups = IF call.only_create THEN 0 ELSE Len(call.values)

C19_Witness ==
    /\ call.fn = "bulk_get_or_create"
    /\ call.out.kind = "return"
    /\ call.only_create
    /\ call.values = <<>>
    /\ call.out.inserts = 0
    /\ store # {}

----------------------------------------------------------------------------
(* Properties of build_retrieve_update_destroy_docs *)

\* C20: in the mixin build_retrieve_update_destroy_docs returns, get carries
\* summaries["retrieve"] and descriptions["retrieve"], put and patch carry
\* summaries["update"] and descriptions["update"], delete carries
\* summaries["destroy"] and descriptions["destroy"], and a key that a
\* dictionary lacks stands for " ".
C20_DocsByAction ==
    call.fn = "build_retrieve_update_destroy_docs" =>
        LET s == IF call.summaries.some THEN call.summaries.v ELSE EmptyDict
            d == IF call.descriptions.some THEN call.descriptions.v ELSE EmptyDict
            Carries(schema, a) ==
                /\ schema.summary = DictGetOr(s, a, Blank)
                /\ schema.description = DictGetOr(d, a, Blank)
        IN  /\ Carries(call.out.get, "retrieve")
            /\ Carries(call.out.put, "update")
            /\ Carries(call.out.patch, "update")
            /\ Carries(call.out.delete, "destroy")

----------------------------------------------------------------------------
(* Properties of CustomUserAdmin *)

\* C21: for every user model the class body of CustomUserAdmin runs without
\* error, the password is among the fields of the first fieldset, and each
\* of last_login, date_joined, first_name, last_name, is_active, is_staff,
\* is_superuser, groups and user_permissions is named in fieldsets,
\* list_display or search_fields only if the user model has a field of that
\* name.
C21_OnlyFieldsOfTheModel ==
    call.fn # "none" =>
        /\ store.kind = "return"
        /\ InList("password", store.fieldsets[1][2])
        /\ \A i \in 1..Len(OptionalFields) :
              LET f == OptionalFields[i]
              IN  (\/ \E g \in 1..Len(store.fieldsets) :
                         InList(f, store.fieldsets[g][2])
                   \/ InList(f, store.list_display)
                   \/ InList(f, store.search_fields)) =>
                      call.model.attr[f] = "field"

====
